---- MODULE Spec2Model ----
(***************************************************************************)
(* scripts/api.py of sd-webui-controlnet: the HTTP handlers of the         *)
(* ControlNet extension (capability queries, detect, render_openpose_json) *)
(* and the shim that registers them with the host at startup.              *)
(*                                                                         *)
(* Python values are records tagged with their type, so that the encoders  *)
(* (which dispatch on isinstance) are modelled by what they do.  Calls     *)
(* into external collaborators (decoder, detector, unload hook, drawing    *)
(* routines) are appended, in program order, to the call log run.calls.    *)
(***************************************************************************)
EXTENDS Integers, Sequences, FiniteSets, TLC

VARIABLES
    global_state,   \* the externally owned registry (scripts.global_state / external_code)
    disk,           \* model files present on disk (environment)
    shim,           \* position of the registration shim / startup callback
    routes,         \* routes currently attached to the host's app
    cached_cn_preprocessors,  \* closure variable of controlnet_api (line 99)
    log,            \* warnings this module logged
    host_exc,       \* TRUE once an exception of this module reached the host at startup
    pc,             \* "idle" | "detect_loop" | "done"
    handler,        \* the handler serving the current request
    req,            \* the current request's parameters
    run,            \* locals of the running handler, and its call log
    response        \* what the handler returned or raised

vars == <<global_state, disk, shim, routes, cached_cn_preprocessors, log, host_exc,
          pc, handler, req, run, response>>

----------------------------------------------------------------------------
(* Bounds of the model *)

MaxImages == 2     \* longest controlnet_input_images list
MaxPoses == 2      \* longest pose_data list

----------------------------------------------------------------------------
(* Values *)

None == "None"

\* Module names a caller may send: canonical names, alias (UI) names, and a
\* name the registry does not know.
ModuleNames ==
    {"none", "canny", "depth", "depth_midas", "openpose", "openpose_full",
     "clip_vision", "t2ia_style_clipvision", "revision_clipvision",
     "revision_ignore_prompt", "bogus"}

\* `"openpose" in controlnet_module` (line 165): the names of ModuleNames
\* that have "openpose" as a substring.
HasOpenpose(name) == name \in {"openpose", "openpose_full"}

\* The tuple of line 121.
ExcludedModules == {"clip_vision", "revision_clipvision", "revision_ignore_prompt"}

InputImages == {"imgA", "imgB", "bad"}
\* What a detector may hand to json_pose_callback during one call, in order.
Deliveries == {<<>>, <<"poseX">>, <<"poseX", "poseY">>}
ModelFiles == {"control_canny", "control_depth"}

RECURSIVE SeqsUpTo(_, _)
SeqsUpTo(S, n) ==
    IF n = 0 THEN {<<>>}
    ELSE LET shorter == SeqsUpTo(S, n - 1)
         IN shorter \cup {Append(s, x) : s \in {t \in shorter : Len(t) = n - 1}, x \in S}

\* dict.get(key, default)
dict_get(d, key, default) == IF key \in DOMAIN d THEN d[key] ELSE default

EmptyDict == [k \in {} |-> None]

----------------------------------------------------------------------------
(* The registry, owned by scripts.global_state and scripts.external_code *)

RegisteredModules ==
    {"none", "canny", "depth", "openpose", "openpose_full", "clip_vision",
     "revision_clipvision"}

\* scripts.processor.preprocessor_filters.keys()
preprocessor_filters == {"All", "Canny", "OpenPose"}

Registry(modules) ==
    [cn_preprocessor_modules |-> [m \in modules |-> [callable |-> m]],
     reverse_preprocessor_aliases |->
        ("depth_midas" :> "depth") @@ ("t2ia_style_clipvision" :> "clip_vision"),
     cn_preprocessor_unloadable |-> {"openpose", "depth", "clip_vision"} \cap modules,
     cn_models |-> {"None", "control_canny"},
     control_types |->
        [t \in preprocessor_filters |->
            <<modules, {"None", "control_canny"}, "none", "None">>],
     api_version |-> 2,
     max_models_num |-> 3]

\* global_state.cache_preprocessors: one cached wrapper per registered detector.
cache_preprocessors(preprocessor_modules) ==
    [m \in DOMAIN preprocessor_modules |-> [cached |-> preprocessor_modules[m].callable]]

\* external_code.get_models(update): with update the registry rescans the disk
\* before answering.
get_models(gs, files, update) ==
    LET refreshed == IF update THEN [gs EXCEPT !.cn_models = {"None"} \cup files] ELSE gs
    IN  [value |-> refreshed.cn_models, gs |-> refreshed]

\* external_code.get_modules(alias_names)
get_modules(gs, alias_names) ==
    LET names == DOMAIN gs.cn_preprocessor_modules
        rev == gs.reverse_preprocessor_aliases
        alias_of(m) == IF \E a \in DOMAIN rev : rev[a] = m
                       THEN CHOOSE a \in DOMAIN rev : rev[a] = m
                       ELSE m
    IN  IF alias_names THEN {alias_of(m) : m \in names} ELSE names

\* external_code.get_modules_detail(alias_names)
get_modules_detail(gs, alias_names) ==
    [m \in get_modules(gs, alias_names) |-> [model_free |-> FALSE]]

\* global_state.select_control_type(control_type)
select_control_type(gs, control_type) == gs.control_types[control_type]

----------------------------------------------------------------------------
(* Responses *)

NoResponse == [kind |-> "none"]
Ok(body) == [kind |-> "ok", body |-> body]
HTTPException(status_code, detail) ==
    [kind |-> "http", status_code |-> status_code, detail |-> detail]
\* an exception other than HTTPException leaving the handler
Unhandled(what) == [kind |-> "exception", what |-> what]

NoRun == [calls |-> <<>>]
NoReq == [none |-> TRUE]

----------------------------------------------------------------------------
(* Encoding helpers, lines 25-46 *)

EmptyStr == [type |-> "str", fmt |-> "empty"]

\* modules.api.api.encode_pil_to_base64
encode_pil_to_base64(pil) == [type |-> "str", fmt |-> "b64image", of |-> pil.pixels]

\* PIL.Image.fromarray
fromarray(array) == [type |-> "PIL", pixels |-> array.pixels]

encode_np_to_base64(image) == encode_pil_to_base64(fromarray(image))

encode_to_base64(image) ==
    IF image.type = "str" THEN image
    ELSE IF image.type = "PIL" THEN encode_pil_to_base64(image)
    ELSE IF image.type = "ndarray" THEN encode_np_to_base64(image)
    ELSE EmptyStr

\* torch.save accepts any picklable object
encode_tensor_to_base64(obj) == [type |-> "str", fmt |-> "b64torch", of |-> obj]

----------------------------------------------------------------------------
(* Registration shim, lines 215-220, and the startup callback, lines 49-212 *)

MountWarning == "Unable to mount ControlNet API."

\* What controlnet_api does, in order: five decorators, the detector cache of
\* line 99, two more decorators.
MountSteps ==
    <<"version", "model_list", "module_list", "control_types", "settings",
      "cache", "detect", "render_openpose_json">>

\* the registration without its try/except
register_callback_unguarded(fails) ==
    IF fails
    THEN [shim |-> "warned", log |-> <<>>, raised |-> TRUE]
    ELSE [shim |-> "registered", log |-> <<>>, raised |-> FALSE]

\* The try block of lines 215-220.  fails: the import of script_callbacks or
\* the call of on_app_started raises.
register_callback(fails) ==
    IF fails
    THEN [shim |-> "warned", log |-> <<MountWarning>>, raised |-> FALSE]
    ELSE [shim |-> "registered", log |-> <<>>, raised |-> FALSE]

\* The body of controlnet_api, run by the host.  fail_at = 0: nothing raises;
\* otherwise step fail_at of MountSteps raises and, with no try around it, the
\* exception leaves the callback.
controlnet_api(fail_at, gs) ==
    LET n == IF fail_at = 0 THEN Len(MountSteps) ELSE fail_at - 1
        completed == {MountSteps[k] : k \in 1..n}
    IN  [routes |-> completed \ {"cache"},
         cached |-> IF "cache" \in completed
                    THEN cache_preprocessors(gs.cn_preprocessor_modules)
                    ELSE EmptyDict,
         raised |-> fail_at # 0]

----------------------------------------------------------------------------
(* Capability queries, lines 50-97.  Each returns its response and the       *)
(* registry as the call leaves it.                                           *)

version(gs) == [response |-> Ok([version |-> gs.api_version]), gs |-> gs]

\* model_list ignoring its update parameter
model_list_always_update(update, gs, files) ==
    LET up_to_date_model_list == get_models(gs, files, TRUE)
    IN  [response |-> Ok([model_list |-> up_to_date_model_list.value]),
         gs |-> up_to_date_model_list.gs]

model_list(update, gs, files) ==
    LET up_to_date_model_list == get_models(gs, files, update)
    IN  [response |-> Ok([model_list |-> up_to_date_model_list.value]),
         gs |-> up_to_date_model_list.gs]

module_list(alias_names, gs) ==
    LET _module_list == get_modules(gs, alias_names)
    IN  [response |-> Ok([module_list |-> _module_list,
                          module_detail |-> get_modules_detail(gs, alias_names)]),
         gs |-> gs]

format_control_type(t) ==
    [module_list |-> t[1], model_list |-> t[2],
     default_option |-> t[3], default_model |-> t[4]]

control_types(gs) ==
    [response |->
        Ok([control_types |->
              [control_type \in preprocessor_filters |->
                  format_control_type(select_control_type(gs, control_type))]]),
     gs |-> gs]

settings(gs) ==
    [response |-> Ok([control_net_unit_count |-> gs.max_models_num]), gs |-> gs]

----------------------------------------------------------------------------
(* detect, lines 103-177 *)

Passed == "passed"

\* validate with the excluded-module check left out
validate_without_excluded(controlnet_module, controlnet_input_images, cached) ==
    IF controlnet_module \notin DOMAIN cached THEN "Module not available"
    ELSE IF Len(controlnet_input_images) = 0 THEN "No image selected"
    ELSE Passed

\* validate with the empty-list check moved first
validate_images_first(controlnet_module, controlnet_input_images, cached) ==
    IF Len(controlnet_input_images) = 0 THEN "No image selected"
    ELSE IF controlnet_module \notin DOMAIN cached THEN "Module not available"
    ELSE IF controlnet_module \in ExcludedModules THEN "Module not supported"
    ELSE Passed

\* The three checks of lines 118-125, in their order; the detail of the
\* HTTPException raised, or Passed.
validate(controlnet_module, controlnet_input_images, cached) ==
    IF controlnet_module \notin DOMAIN cached THEN "Module not available"
    ELSE IF controlnet_module \in ExcludedModules THEN "Module not supported"
    ELSE IF Len(controlnet_input_images) = 0 THEN "No image selected"
    ELSE Passed

\* external_code.ControlNetUnit(...)
ControlNetUnit(module, processor_res, threshold_a, threshold_b) ==
    [module |-> module, processor_res |-> processor_res,
     threshold_a |-> threshold_a, threshold_b |-> threshold_b]

\* ControlNetUnit.bound_check_params: a value outside its slider's range is
\* replaced by the slider's default.
SliderDefaults == [processor_res |-> 512, threshold_a |-> 1, threshold_b |-> 1]
bound_check_params(unit) ==
    [unit EXCEPT !.processor_res = IF @ < 0 THEN SliderDefaults.processor_res ELSE @,
                 !.threshold_a = IF @ < 0 THEN SliderDefaults.threshold_a ELSE @,
                 !.threshold_b = IF @ < 0 THEN SliderDefaults.threshold_b ELSE @]

\* external_code.to_base64_nparray: raises on a string that is no image.
to_base64_nparray(input_image) ==
    IF input_image = "bad" THEN [ok |-> FALSE]
    ELSE [ok |-> TRUE, value |-> [type |-> "ndarray", pixels |-> [src |-> input_image]]]

\* an acceptor that keeps the first value it is given
accept_first(self, json_dict) ==
    IF self.value = None THEN [self EXCEPT !.value = json_dict] ELSE self

\* class JsonAcceptor, lines 147-152
JsonAcceptor == [value |-> None]
\* JsonAcceptor.accept, lines 151-152
accept(self, json_dict) == [self EXCEPT !.value = json_dict]

\* The detector is an external callable.  One call either raises, or returns
\* (detected_map, is_image) after handing its pose data, zero or more times,
\* to json_pose_callback.
DetectorOutcomes ==
    {[raises |-> TRUE, is_image |-> FALSE, deliveries |-> <<>>]} \cup
    {[raises |-> FALSE, is_image |-> b, deliveries |-> d] :
        b \in BOOLEAN, d \in Deliveries}

RECURSIVE deliver(_, _)
deliver(acceptor, deliveries) ==
    IF deliveries = <<>> THEN acceptor
    ELSE deliver(accept(acceptor, Head(deliveries)), Tail(deliveries))

\* What processor_module(img, res=..., ...) returns under `outcome`: an array
\* when the detector flags its output an image, a tensor otherwise.
detected(processor_module, img, args, outcome) ==
    [type |-> IF outcome.is_image THEN "ndarray" ELSE "tensor",
     pixels |-> [detector |-> processor_module.cached, src |-> img.pixels.src,
                 args |-> args]]

\* Lines 114-142: alias resolution, validation, the parameter object.
detect_begin(request, gs, cached) ==
    LET controlnet_module ==
            dict_get(gs.reverse_preprocessor_aliases, request.controlnet_module,
                     request.controlnet_module)
        detail == validate(controlnet_module, request.controlnet_input_images, cached)
        unit == ControlNetUnit(controlnet_module, request.controlnet_processor_res,
                               request.controlnet_threshold_a,
                               request.controlnet_threshold_b)
    IN  IF detail # Passed
        THEN [raised |-> TRUE, response |-> HTTPException(422, detail), run |-> NoRun]
        ELSE [raised |-> FALSE, response |-> NoResponse,
              run |-> [controlnet_module |-> controlnet_module,
                       unit |-> bound_check_params(unit),
                       results |-> <<>>,
                       poses |-> <<>>,
                       processor_module |-> cached[controlnet_module],
                       idx |-> 1,
                       raised |-> None,
                       calls |-> <<[op |-> "ControlNetUnit", i |-> 0],
                                   [op |-> "bound_check_params", i |-> 0]>>]]

\* a loop body that catches the detector's exception and goes on to the next image
loop_body_swallowing(r, input_image, low_vram, outcome) ==
    LET img == to_base64_nparray(input_image)
        decode_call == [op |-> "to_base64_nparray", i |-> r.idx]
        detector_call == [op |-> "detector", i |-> r.idx, out |-> outcome]
        args == [res |-> r.unit.processor_res, thr_a |-> r.unit.threshold_a,
                 thr_b |-> r.unit.threshold_b, low_vram |-> low_vram]
    IN  IF ~img.ok
        THEN [r EXCEPT !.calls = Append(@, decode_call), !.raised = "to_base64_nparray"]
        ELSE IF outcome.raises
        THEN [is_image |-> TRUE] @@
             [r EXCEPT !.calls = @ \o <<decode_call, detector_call>>, !.idx = @ + 1]
        ELSE [is_image |-> outcome.is_image] @@
             [r EXCEPT !.calls = @ \o <<decode_call, detector_call>>,
                       !.results = Append(@, detected(r.processor_module, img.value,
                                                      args, outcome)),
                       !.poses = IF HasOpenpose(r.controlnet_module)
                                 THEN Append(@, deliver(JsonAcceptor,
                                                        outcome.deliveries).value)
                                 ELSE @,
                       !.idx = @ + 1]

\* One iteration of the loop of lines 144-167, for the image at r.idx.
\* r.raised names the step that raised, if one did.
loop_body(r, input_image, low_vram, outcome) ==
    LET img == to_base64_nparray(input_image)
        decode_call == [op |-> "to_base64_nparray", i |-> r.idx]
        args == [res |-> r.unit.processor_res, thr_a |-> r.unit.threshold_a,
                 thr_b |-> r.unit.threshold_b, low_vram |-> low_vram]
        detector_call == [op |-> "detector", i |-> r.idx, out |-> outcome]
    IN  IF ~img.ok
        THEN [r EXCEPT !.calls = Append(@, decode_call), !.raised = "to_base64_nparray"]
        ELSE IF outcome.raises
        THEN [r EXCEPT !.calls = @ \o <<decode_call, detector_call>>,
                       !.raised = "detector"]
        ELSE
        LET json_acceptor == deliver(JsonAcceptor, outcome.deliveries)
            detected_map == detected(r.processor_module, img.value, args, outcome)
            r1 == [is_image |-> outcome.is_image] @@
                  [r EXCEPT !.calls = @ \o <<decode_call, detector_call>>,
                            !.results = Append(@, detected_map)]
        IN  IF HasOpenpose(r.controlnet_module)
            THEN IF json_acceptor.value = None
                 THEN [r1 EXCEPT !.raised = "assert"]
                 ELSE [r1 EXCEPT !.poses = Append(@, json_acceptor.value),
                                 !.idx = @ + 1]
            ELSE [r1 EXCEPT !.idx = @ + 1]

\* the response built without calling the unload hook
post_loop_without_unload(r, gs) ==
    LET images == [k \in 1..Len(r.results) |-> encode_to_base64(r.results[k])]
        tensor == [k \in 1..Len(r.results) |-> encode_tensor_to_base64(r.results[k])]
    IN  [run |-> r,
         response |-> Ok(IF r.is_image
                         THEN IF r.poses # <<>>
                              THEN [poses |-> r.poses] @@ [images |-> images]
                                   @@ [info |-> "Success"]
                              ELSE [images |-> images] @@ [info |-> "Success"]
                         ELSE [tensor |-> tensor] @@ [info |-> "Success"])]

\* Lines 169-177: the unload hook, then the response.
post_loop(r, gs) ==
    LET hooked == r.controlnet_module \in gs.cn_preprocessor_unloadable
        calls == IF hooked
                 THEN Append(r.calls, [op |-> "unload", i |-> 0])
                 ELSE r.calls
        res == [info |-> "Success"]
        images == [k \in 1..Len(r.results) |-> encode_to_base64(r.results[k])]
        tensor == [k \in 1..Len(r.results) |-> encode_tensor_to_base64(r.results[k])]
        body == IF r.is_image
                THEN IF r.poses # <<>>
                     THEN [poses |-> r.poses] @@ [images |-> images] @@ res
                     ELSE [images |-> images] @@ res
                ELSE [tensor |-> tensor] @@ res
    IN  [run |-> [r EXCEPT !.calls = calls], response |-> Ok(body)]

----------------------------------------------------------------------------
(* render_openpose_json, lines 180-212 *)

\* A PoseData payload as the decoder reads it: the people and animals it
\* holds and its canvas.
People == {<<>>, <<"person">>}
Animals == {<<>>, <<"animal">>}
CanvasSizes == {64, 128}
PoseData ==
    [people : People, animals : Animals,
     canvas_width : CanvasSizes, canvas_height : CanvasSizes]

\* annotator.openpose.decode_json_as_poses: (poses, animals, height, width)
decode_json_as_poses(pose_json) ==
    <<[k \in 1..Len(pose_json.people) |-> [human |-> pose_json.people[k]]],
      [k \in 1..Len(pose_json.animals) |-> [animal |-> pose_json.animals[k]]],
      pose_json.canvas_height, pose_json.canvas_width>>

\* annotator.openpose.draw_poses / animalpose.draw_animalposes
draw_poses(poses, H, W) ==
    [type |-> "ndarray", pixels |-> [drawn |-> "human", of |-> poses, H |-> H, W |-> W]]
draw_animalposes(animals, H, W) ==
    [type |-> "ndarray", pixels |-> [drawn |-> "animal", of |-> animals, H |-> H, W |-> W]]

\* draw with the canvas height and width passed in the wrong order
draw_swapped(poses, animals, H, W) ==
    IF poses # <<>>
    THEN IF Len(animals) = 0
         THEN [ok |-> TRUE, routine |-> "draw_poses", image |-> draw_poses(poses, W, H)]
         ELSE [ok |-> FALSE]
    ELSE [ok |-> TRUE, routine |-> "draw_animalposes",
          image |-> draw_animalposes(animals, W, H)]

\* draw, lines 199-204: the routine called and its image, or the failed assert.
draw(poses, animals, H, W) ==
    IF poses # <<>>
    THEN IF Len(animals) = 0
         THEN [ok |-> TRUE, routine |-> "draw_poses", image |-> draw_poses(poses, H, W)]
         ELSE [ok |-> FALSE]
    ELSE [ok |-> TRUE, routine |-> "draw_animalposes",
          image |-> draw_animalposes(animals, H, W)]

\* The list comprehension of lines 207-210, from payload k on.
RECURSIVE render_from(_, _, _, _)
render_from(pose_data, k, images, calls) ==
    IF k > Len(pose_data) THEN [raised |-> FALSE, images |-> images, calls |-> calls]
    ELSE LET d == decode_json_as_poses(pose_data[k])
             decode_call == [op |-> "decode_json_as_poses", i |-> k]
             drawn == draw(d[1], d[2], d[3], d[4])
         IN  IF ~drawn.ok
             THEN [raised |-> TRUE, images |-> images,
                   calls |-> Append(calls, decode_call)]
             ELSE render_from(pose_data, k + 1,
                              Append(images, encode_to_base64(drawn.image)),
                              calls \o <<decode_call, [op |-> drawn.routine, i |-> k]>>)

\* the handler without its empty-list branch
render_openpose_json_unguarded(pose_data) ==
    LET rendered == render_from(pose_data, 1, <<>>, <<>>)
    IN  IF rendered.raised
        THEN [response |-> Unhandled("assert"), run |-> [calls |-> rendered.calls]]
        ELSE [response |-> Ok([images |-> rendered.images, info |-> "Success"]),
              run |-> [calls |-> rendered.calls]]

render_openpose_json(pose_data) ==
    IF pose_data = <<>>
    THEN [response |-> Ok([info |-> "No pose data detected."]), run |-> NoRun]
    ELSE LET rendered == render_from(pose_data, 1, <<>>, <<>>)
         IN  IF rendered.raised
             THEN [response |-> Unhandled("assert"), run |-> [calls |-> rendered.calls]]
             ELSE [response |-> Ok([images |-> rendered.images, info |-> "Success"]),
                   run |-> [calls |-> rendered.calls]]

----------------------------------------------------------------------------
(* The state machine *)

\* Overrides a caller may send with a detect request; the first is the
\* defaults of lines 107-112.
DetectOptions ==
    {[controlnet_processor_res |-> -1, controlnet_threshold_a |-> -1,
      controlnet_threshold_b |-> -1, low_vram |-> FALSE],
     [controlnet_processor_res |-> 512, controlnet_threshold_a |-> 1,
      controlnet_threshold_b |-> -1, low_vram |-> TRUE],
     [controlnet_processor_res |-> 512, controlnet_threshold_a |-> -1,
      controlnet_threshold_b |-> 1, low_vram |-> FALSE],
     [controlnet_processor_res |-> -1, controlnet_threshold_a |-> 1,
      controlnet_threshold_b |-> 1, low_vram |-> TRUE]}

DetectRequests ==
    {[controlnet_module |-> m, controlnet_input_images |-> images] @@ o :
        m \in ModuleNames, images \in SeqsUpTo(InputImages, MaxImages),
        o \in DetectOptions}

\* model_list's query string: update given or left to its default (line 55).
ModelListRequests ==
    {[given |-> FALSE, update |-> TRUE]} \cup
    {[given |-> TRUE, update |-> u] : u \in BOOLEAN}

QueryHandlers == {"version", "model_list", "module_list", "control_types", "settings"}

Init ==
    /\ global_state = Registry(RegisteredModules)
    /\ disk = ModelFiles
    /\ shim = "init"
    /\ routes = {}
    /\ cached_cn_preprocessors = EmptyDict
    /\ log = <<>>
    /\ host_exc = FALSE
    /\ pc = "idle"
    /\ handler = None
    /\ req = NoReq
    /\ run = NoRun
    /\ response = NoResponse

\* The host imports scripts/api.py: lines 215-220 run.
ImportModule ==
    /\ shim = "init"
    /\ \E fails \in BOOLEAN :
        LET r == register_callback(fails)
        IN  /\ shim' = r.shim
            /\ log' = log \o r.log
            /\ host_exc' = (host_exc \/ r.raised)
    /\ UNCHANGED <<global_state, disk, routes, cached_cn_preprocessors,
                   pc, handler, req, run, response>>

\* The host signals startup and runs the registered callback.
AppStarted ==
    /\ shim = "registered"
    /\ \E fail_at \in 0..Len(MountSteps) :
        LET r == controlnet_api(fail_at, global_state)
        IN  /\ routes' = r.routes
            /\ cached_cn_preprocessors' = r.cached
            /\ host_exc' = (host_exc \/ r.raised)
            /\ shim' = IF r.raised THEN "mount_failed" ELSE "mounted"
    /\ UNCHANGED <<global_state, disk, log, pc, handler, req, run, response>>

\* A capability query served in one step.
Served(name, request, r) ==
    /\ pc' = "done"
    /\ handler' = name
    /\ req' = request
    /\ run' = NoRun
    /\ response' = r.response
    /\ global_state' = r.gs
    /\ UNCHANGED <<disk, shim, routes, cached_cn_preprocessors, log, host_exc>>

Version ==
    /\ pc = "idle" /\ "version" \in routes
    /\ Served("version", NoReq, version(global_state))

ModelList ==
    /\ pc = "idle" /\ "model_list" \in routes
    /\ \E q \in ModelListRequests :
        Served("model_list", q, model_list(q.update, global_state, disk))

ModuleList ==
    /\ pc = "idle" /\ "module_list" \in routes
    /\ \E alias_names \in BOOLEAN :
        Served("module_list", [alias_names |-> alias_names],
               module_list(alias_names, global_state))

ControlTypes ==
    /\ pc = "idle" /\ "control_types" \in routes
    /\ Served("control_types", NoReq, control_types(global_state))

Settings ==
    /\ pc = "idle" /\ "settings" \in routes
    /\ Served("settings", NoReq, settings(global_state))

\* detect up to the loop: lines 114-142.
Detect ==
    /\ pc = "idle" /\ "detect" \in routes
    /\ \E request \in DetectRequests :
        LET b == detect_begin(request, global_state, cached_cn_preprocessors)
        IN  /\ handler' = "detect"
            /\ req' = request
            /\ run' = b.run
            /\ response' = b.response
            /\ pc' = IF b.raised THEN "done" ELSE "detect_loop"
    /\ UNCHANGED <<global_state, disk, shim, routes, cached_cn_preprocessors,
                   log, host_exc>>

\* One iteration of detect's loop; the last one runs on through lines 169-177.
DetectImage ==
    /\ pc = "detect_loop"
    /\ \E outcome \in DetectorOutcomes :
        LET images == req.controlnet_input_images
            r == loop_body(run, images[run.idx], req.low_vram, outcome)
        IN  IF r.raised # None
            THEN /\ run' = r
                 /\ response' = Unhandled(r.raised)
                 /\ pc' = "done"
            ELSE IF r.idx > Len(images)
            THEN LET f == post_loop(r, global_state)
                 IN  /\ run' = f.run
                     /\ response' = f.response
                     /\ pc' = "done"
            ELSE /\ run' = r
                 /\ UNCHANGED <<response, pc>>
    /\ UNCHANGED <<global_state, disk, shim, routes, cached_cn_preprocessors,
                   log, host_exc, handler, req>>

RenderOpenposeJson ==
    /\ pc = "idle" /\ "render_openpose_json" \in routes
    /\ \E pose_data \in SeqsUpTo(PoseData, MaxPoses) :
        LET r == render_openpose_json(pose_data)
        IN  /\ handler' = "render_openpose_json"
            /\ req' = [pose_data |-> pose_data]
            /\ run' = r.run
            /\ response' = r.response
            /\ pc' = "done"
    /\ UNCHANGED <<global_state, disk, shim, routes, cached_cn_preprocessors,
                   log, host_exc>>

\* The host sends the response (or its own error page) and the call is over.
Return ==
    /\ pc = "done"
    /\ pc' = "idle"
    /\ handler' = None
    /\ req' = NoReq
    /\ run' = NoRun
    /\ response' = NoResponse
    /\ UNCHANGED <<global_state, disk, shim, routes, cached_cn_preprocessors,
                   log, host_exc>>

Next ==
    \/ ImportModule
    \/ AppStarted
    \/ Version
    \/ ModelList
    \/ ModuleList
    \/ ControlTypes
    \/ Settings
    \/ Detect
    \/ DetectImage
    \/ RenderOpenposeJson
    \/ Return

Spec == Init /\ [][Next]_vars

----------------------------------------------------------------------------
(* Vocabulary of the properties *)

Images == req.controlnet_input_images
NImages == Len(req.controlnet_input_images)

DetectDone == handler = "detect" /\ pc = "done"
Is422 == response.kind = "http" /\ response.status_code = 422
IsOk == response.kind = "ok"
Raised == response.kind = "exception"

\* The requested module name mapped through the alias table.
CanonicalName ==
    IF req.controlnet_module \in DOMAIN global_state.reverse_preprocessor_aliases
    THEN global_state.reverse_preprocessor_aliases[req.controlnet_module]
    ELSE req.controlnet_module

NotCached == CanonicalName \notin DOMAIN cached_cn_preprocessors
IsExcluded ==
    CanonicalName \in {"clip_vision", "revision_clipvision", "revision_ignore_prompt"}
NoImages == req.controlnet_input_images = <<>>

CallsOf(op) == SelectSeq(run.calls, LAMBDA c : c.op = op)
DetectorCalls == CallsOf("detector")
\* position in the call log of the detector call for image i (0 if none)
PosOfDetector(i) ==
    IF \E p \in 1..Len(run.calls) : run.calls[p].op = "detector" /\ run.calls[p].i = i
    THEN CHOOSE p \in 1..Len(run.calls) :
            run.calls[p].op = "detector" /\ run.calls[p].i = i
    ELSE 0
DetectorRaisedAt(k) ==
    \E p \in 1..Len(run.calls) :
        /\ run.calls[p].op = "detector"
        /\ run.calls[p].i = k
        /\ run.calls[p].out.raises

----------------------------------------------------------------------------
(* C1: a detect request ends with HTTP 422 exactly when the canonical name  *)
(* is not in the detector set cached at mount time, or is one of the three  *)
(* excluded modules, or the image list is empty; a request still in its     *)
(* loop satisfies none of the three.                                        *)
C1_Ends422Iff ==
    /\ DetectDone => (Is422 <=> (NotCached \/ IsExcluded \/ NoImages))
    /\ (handler = "detect" /\ pc = "detect_loop") =>
            ~(NotCached \/ IsExcluded \/ NoImages)
    /\ DetectDone /\ response.kind = "http" => response.status_code = 422

\* An alias of an excluded, cached module with a non-empty image list: 422.
C1_Witness ==
    /\ DetectDone /\ Is422
    /\ req.controlnet_module = "t2ia_style_clipvision"
    /\ ~NotCached /\ IsExcluded /\ ~NoImages

(* C10: a detect request that ends with 422 called no collaborator (no      *)
(* decode, no detector, no parameter object, no bound check, no unload), and *)
(* its detail is "Module not available" before "Module not supported"       *)
(* before "No image selected".                                              *)
C10_422NoSideEffects ==
    DetectDone /\ Is422 =>
        /\ run.calls = <<>>
        /\ response.detail =
            IF NotCached THEN "Module not available"
            ELSE IF IsExcluded THEN "Module not supported"
            ELSE "No image selected"

\* All three conditions at once, and two at once.
C10_Witness ==
    /\ DetectDone /\ Is422
    /\ NotCached /\ IsExcluded /\ NoImages
    /\ response.detail = "Module not available"

(* C4: if the detector raises on the k-th image, the handler ends with that *)
(* exception: no Success response, no body, and the k-th detector call is   *)
(* the last call the handler made.                                          *)
C4_DetectorRaisePropagates ==
    \A k \in 1..MaxImages + 1 :
        (handler = "detect" /\ DetectorRaisedAt(k)) =>
            /\ pc = "done"
            /\ response = Unhandled("detector")
            /\ run.calls[Len(run.calls)].op = "detector"
            /\ run.calls[Len(run.calls)].i = k
            /\ \A p \in 1..Len(run.calls) : run.calls[p].i <= k
            /\ Len(run.results) = k - 1

\* The detector raises on the first of two images.
C4_Witness ==
    /\ DetectDone /\ NImages = 2
    /\ DetectorRaisedAt(1)

\* the flag the detector returned for image i
FlagOf(i) == run.calls[PosOfDetector(i)].out.is_image
\* what the detector handed to the sink during the call for image i
DeliveredFor(i) == run.calls[PosOfDetector(i)].out.deliveries

IsBase64Image(entry, map) ==
    entry.type = "str" /\ entry.fmt = "b64image" /\ entry.of = map.pixels
IsBase64Tensor(entry, map) ==
    entry.type = "str" /\ entry.fmt = "b64torch" /\ entry.of = map /\ map.type = "tensor"

(* C2, as stated: a validated detect request in which nothing raises        *)
(* returns Success with exactly one of images / tensor, one entry per       *)
(* input image in input order; every output flagged image-like is in        *)
(* images as a base64 image and every output flagged tensor-like is in      *)
(* tensor as a base64 serialized tensor.                                    *)
C2_EachOutputByItsOwnFlag ==
    (DetectDone /\ ~Is422 /\ ~Raised) =>
        /\ IsOk
        /\ response.body.info = "Success"
        /\ ("images" \in DOMAIN response.body) # ("tensor" \in DOMAIN response.body)
        /\ \A i \in 1..NImages :
            /\ run.results[i].pixels.src = Images[i]
            /\ IF FlagOf(i)
               THEN /\ "images" \in DOMAIN response.body
                    /\ Len(response.body.images) = NImages
                    /\ IsBase64Image(response.body.images[i], run.results[i])
               ELSE /\ "tensor" \in DOMAIN response.body
                    /\ Len(response.body.tensor) = NImages
                    /\ IsBase64Tensor(response.body.tensor[i], run.results[i])

PosesAreLastDeliveries ==
    /\ "poses" \in DOMAIN response.body
    /\ Len(response.body.poses) = NImages
    /\ \A i \in 1..NImages :
        /\ DeliveredFor(i) # <<>>
        /\ response.body.poses[i] = DeliveredFor(i)[Len(DeliveredFor(i))]

NoDeliveryFails ==
    (DetectDone /\ ~Is422 /\ HasOpenpose(CanonicalName)
        /\ \E i \in 1..NImages :
              PosOfDetector(i) # 0 /\ ~DetectorRaisedAt(i) /\ DeliveredFor(i) = <<>>)
    => Raised

(* C9, as stated: every successful detect request for a module whose name   *)
(* contains "openpose" has a poses list with one entry per input image, the *)
(* i-th being the last pose data delivered during the call for image i;     *)
(* other modules have no poses key; a pose detector call that delivers      *)
(* nothing makes the request fail.                                          *)
C9_PosesInEverySuccess ==
    /\ (DetectDone /\ IsOk) =>
        IF HasOpenpose(CanonicalName)
        THEN PosesAreLastDeliveries
        ELSE "poses" \notin DOMAIN response.body
    /\ NoDeliveryFails

(* C9, amended: a successful detect request has a poses key exactly when    *)
(* the module name contains "openpose" and the response carries images (the *)
(* detector flagged its last output image-like); the list then has one      *)
(* entry per input image, the i-th being the last pose data delivered       *)
(* during the call for image i.  A response carrying tensor has no poses    *)
(* key.  A pose detector call that delivers nothing makes the request fail. *)
C9_PosesWithImages ==
    /\ (DetectDone /\ IsOk) =>
        IF HasOpenpose(CanonicalName) /\ "images" \in DOMAIN response.body
        THEN PosesAreLastDeliveries
        ELSE "poses" \notin DOMAIN response.body
    /\ NoDeliveryFails

\* Two images; the first call delivers twice, the second once.
C9_Witness ==
    /\ DetectDone /\ IsOk /\ NImages = 2
    /\ CanonicalName = "openpose"
    /\ DeliveredFor(1) = <<"poseX", "poseY">>
    /\ DeliveredFor(2) = <<"poseX">>
    /\ "poses" \in DOMAIN response.body
    /\ response.body.poses = <<"poseY", "poseX">>

----------------------------------------------------------------------------
RenderDone == handler = "render_openpose_json" /\ pc = "done"
ValidPayload(pose) == ~(pose.people # <<>> /\ pose.animals # <<>>)

(* C5: render_openpose_json with N >= 1 valid payloads returns Success and  *)
(* N images; the i-th is the base64 image of the drawing of payload i on    *)
(* that payload's canvas height and width; per payload the decoder is       *)
(* called once and then exactly one drawing routine, the human one when     *)
(* the payload decodes to human poses and the animal one otherwise.         *)
C5_OneImagePerPayload ==
    (RenderDone /\ req.pose_data # <<>> /\ \A i \in 1..Len(req.pose_data) :
                                              ValidPayload(req.pose_data[i])) =>
        /\ IsOk
        /\ response.body.info = "Success"
        /\ Len(response.body.images) = Len(req.pose_data)
        /\ Len(run.calls) = 2 * Len(req.pose_data)
        /\ \A i \in 1..Len(req.pose_data) :
            LET pose == req.pose_data[i]
                human == pose.people # <<>>
                image == response.body.images[i]
            IN  /\ image.type = "str" /\ image.fmt = "b64image"
                /\ image.of.H = pose.canvas_height
                /\ image.of.W = pose.canvas_width
                /\ image.of.drawn = IF human THEN "human" ELSE "animal"
                /\ Len(image.of.of) =
                     IF human THEN Len(pose.people) ELSE Len(pose.animals)
                /\ run.calls[2 * i - 1] = [op |-> "decode_json_as_poses", i |-> i]
                /\ run.calls[2 * i] =
                     [op |-> IF human THEN "draw_poses" ELSE "draw_animalposes", i |-> i]

\* A human payload and an animal payload on different, non-square canvases.
C5_Witness ==
    /\ RenderDone /\ IsOk /\ Len(req.pose_data) = 2
    /\ req.pose_data[1].people # <<>> /\ req.pose_data[2].animals # <<>>
    /\ req.pose_data[1].canvas_height # req.pose_data[1].canvas_width
    /\ req.pose_data[2].canvas_height # req.pose_data[1].canvas_height

(* C6: render_openpose_json with an empty list returns exactly              *)
(* {"info": "No pose data detected."}: no images key, no error, and neither *)
(* the decoder nor a drawing routine called.                                *)
C6_EmptyPoseData ==
    (RenderDone /\ req.pose_data = <<>>) =>
        /\ IsOk
        /\ DOMAIN response.body = {"info"}
        /\ response.body.info = "No pose data detected."
        /\ run.calls = <<>>

C6_Witness == RenderDone /\ req.pose_data = <<>> /\ IsOk

----------------------------------------------------------------------------
\* A step in which one of the capability queries is served.
QueryStep == pc = "idle" /\ pc' = "done" /\ handler' \in QueryHandlers

(* C7, as stated: no capability query, whatever its parameters, changes the *)
(* registry (model list, module tables, cached detectors).                  *)
C7_QueriesNeverChangeRegistry ==
    [][QueryStep =>
        /\ global_state' = global_state
        /\ cached_cn_preprocessors' = cached_cn_preprocessors]_vars

(* C7, amended: version, module_list, control_types, settings, and          *)
(* model_list called with update=false leave the registry as it was;        *)
(* model_list called with update=true, which is its default, has the        *)
(* registry rescan the disk, so its model list (and nothing else) may       *)
(* change.                                                                  *)
C7_OnlyModelListUpdateRefreshes ==
    [][QueryStep =>
        /\ cached_cn_preprocessors' = cached_cn_preprocessors
        /\ IF handler' = "model_list" /\ req'.update
           THEN /\ [global_state' EXCEPT !.cn_models = {}] =
                        [global_state EXCEPT !.cn_models = {}]
                /\ ~req'.given => global_state'.cn_models = {"None"} \cup disk
           ELSE global_state' = global_state]_vars

\* model_list?update=false answered while the registry's list is out of date.
C7_Witness ==
    /\ handler = "model_list" /\ pc = "done"
    /\ req.given /\ ~req.update
    /\ global_state.cn_models # {"None"} \cup disk
    /\ response.body.model_list = global_state.cn_models

----------------------------------------------------------------------------
(* C8, as stated: whether the failure occurs when the module registers its  *)
(* callback or when the host runs the callback, no exception reaches the    *)
(* host, a warning is logged and no route is mounted.                       *)
C8_EveryMountFailureSwallowed ==
    /\ ~host_exc
    /\ shim \in {"warned", "mount_failed"} => (log = <<MountWarning>> /\ routes = {})

(* C8, amended: a failure while the module registers its startup callback   *)
(* is swallowed: one warning logged, nothing reaches the host, no route     *)
(* mounted.  A failure while the host runs the callback is not caught by    *)
(* this module: the exception reaches the host, no warning is logged, and   *)
(* the routes attached before the failing step stay attached.               *)
C8_OnlyRegistrationFailureSwallowed ==
    /\ shim = "warned" =>
        (~host_exc /\ log = <<MountWarning>> /\ routes = {})
    /\ shim = "mount_failed" =>
        (host_exc /\ log = <<>> /\ "render_openpose_json" \notin routes)
    /\ shim = "mounted" =>
        (~host_exc /\ log = <<>>
         /\ routes = {MountSteps[k] : k \in 1..Len(MountSteps)} \ {"cache"})
    /\ "detect" \in routes =>
        DOMAIN cached_cn_preprocessors = DOMAIN global_state.cn_preprocessor_modules

C8_Witness == shim = "warned" /\ log = <<MountWarning>> /\ ~host_exc

====
